---------------------------- MODULE Spec2Model ----------------------------
(***************************************************************************)
(* State-machine model of EchoPulse_pytorch/cvivit.py: the CViViT          *)
(* autoencoder object, its token/frame arithmetic and its multi-mode       *)
(* forward call.  Tensors are modelled by their shapes (sequences of       *)
(* dimensions); the only tensor contents kept are the boolean frame mask   *)
(* and the per-frame squared reconstruction error.                         *)
(***************************************************************************)
EXTENDS Integers, Sequences, FiniteSets, TLC

VARIABLES
    self,   \* the constructed CViViT object (configuration and submodules)
    call,   \* the call in progress: operation name and its arguments
    res     \* what the call did: stages run, local values, outcome

vars == <<self, call, res>>

(***************************************************************************)
(* Bounds of the model.                                                    *)
(***************************************************************************)
MaxFrames == 3      \* frame counts f of the input video: 1..MaxFrames
MaxPt == 2          \* temporal_patch_size: 1..MaxPt
MaxTokens == 6      \* token counts handed to frames_per_num_tokens
MaxMaskFrames == 5  \* frame counts of the masks handed to calculate_video_token_mask

None == <<>>
exists(val) == val # None

\* python's %: the result has the sign of the divisor (denom > 0 here)
divisible_by(numer, denom) == (numer % denom) = 0

(***************************************************************************)
(* Construction: CViViT.__init__                                           *)
(***************************************************************************)
\* image_size, patch_size (already pair()-ed) and channels of the model
Geometries ==
    { [image_size |-> <<4, 2>>, patch_size |-> <<2, 2>>, channels |-> 1, dim |-> 3],
      [image_size |-> <<2, 2>>, patch_size |-> <<2, 2>>, channels |-> 2, dim |-> 3] }

CViViT_init(geom, temporal_patch_size, use_vgg_and_gan, use_discr) ==
    [ image_size          |-> geom.image_size,
      patch_size          |-> geom.patch_size,
      channels            |-> geom.channels,
      dim                 |-> geom.dim,
      temporal_patch_size |-> temporal_patch_size,
      use_vgg_and_gan     |-> use_vgg_and_gan,
      use_discr           |-> use_discr,
      \* self.vgg = None; self.discr = None; then the return at
      \* "if not use_vgg_and_gan" leaves the submodules uncreated
      has_loss_fn_lpips   |-> use_vgg_and_gan,
      has_i3d             |-> use_vgg_and_gan,
      discr               |-> IF use_vgg_and_gan /\ use_discr
                              THEN <<"Discriminator">> ELSE None,
      \* both attributes are set (to None at least), so hasattr holds
      has_vgg_attr        |-> TRUE,
      has_discr_attr      |-> TRUE,
      \* a fresh nn.Module: parameters on the cpu, training mode, and the
      \* initial value under every key of its state dict
      device              |-> "cpu",
      training            |-> TRUE,
      weights             |-> [k \in {"vq", "to_pixels"}
                                     \cup (IF use_vgg_and_gan /\ use_discr
                                           THEN {"discr"} ELSE {})
                               |-> "init"] ]

image_num_tokens(m) ==
    (m.image_size[1] \div m.patch_size[1]) * (m.image_size[2] \div m.patch_size[2])

patch_height_width(m) ==
    <<m.image_size[1] \div m.patch_size[1], m.image_size[2] \div m.patch_size[2]>>

(***************************************************************************)
(* Outcomes of a call.                                                     *)
(***************************************************************************)
Raised(exc) == [raised |-> TRUE, exc |-> exc, val |-> 0]
Returned(v) == [raised |-> FALSE, exc |-> "", val |-> v]

(***************************************************************************)
(* Token-count / frame-count arithmetic.                                   *)
(***************************************************************************)
\* variant: the first frame's "+ 1" left out
frames_per_num_tokens_no_first(m, num_tokens) ==
    LET tokens_per_frame == image_num_tokens(m)
        pseudo_frames == num_tokens \div tokens_per_frame
    IN  IF (num_tokens % tokens_per_frame) # 0 THEN Raised("AssertionError")
        ELSE IF ~(num_tokens > 0) THEN Raised("AssertionError")
        ELSE Returned((pseudo_frames - 1) * m.temporal_patch_size)

frames_per_num_tokens(m, num_tokens) ==
    LET tokens_per_frame == image_num_tokens(m)
        pseudo_frames == num_tokens \div tokens_per_frame
    IN  IF (num_tokens % tokens_per_frame) # 0 THEN Raised("AssertionError")
        ELSE IF ~(num_tokens > 0) THEN Raised("AssertionError")
        ELSE Returned((pseudo_frames - 1) * m.temporal_patch_size + 1)

\* variant: the divisibility assertion left out
num_tokens_per_frames_unchecked(m, num_frames, include_first_frame) ==
    LET tpf == image_num_tokens(m)
        total_tokens == IF include_first_frame THEN tpf ELSE 0
        rest == IF include_first_frame THEN num_frames - 1 ELSE num_frames
    IN  Returned(total_tokens + (rest \div m.temporal_patch_size) * tpf)

num_tokens_per_frames(m, num_frames, include_first_frame) ==
    LET tpf == image_num_tokens(m)
        total_tokens == IF include_first_frame THEN tpf ELSE 0
        rest == IF include_first_frame THEN num_frames - 1 ELSE num_frames
    IN  IF (rest % m.temporal_patch_size) # 0 THEN Raised("AssertionError")
        \* int(num_frames / temporal_patch_size): exact, the division has no
        \* remainder once the assertion has passed
        ELSE Returned(total_tokens + (rest \div m.temporal_patch_size) * tpf)

(***************************************************************************)
(* Tensor shapes and the einops patterns used by the model.                *)
(***************************************************************************)
RECURSIVE ProdFrom(_, _)
ProdFrom(shape, i) ==
    IF i > Len(shape) THEN 1 ELSE shape[i] * ProdFrom(shape, i + 1)

\* number of elements of a tensor of this shape
Prod(shape) == ProdFrom(shape, 1)

\* torch.cat of two tensors along dimension dim (1-based here)
cat(a, b, dim) == [i \in 1..Len(a) |-> IF i = dim THEN a[i] + b[i] ELSE a[i]]

\* the external Transformer stack returns a tensor of the shape it was given
Transformer(shape) == shape

\* Rearrange('b c 1 (h p1) (w p2) -> b 1 h w (c p1 p2)'), LayerNorm,
\* Linear(c*p1*p2, dim), LayerNorm
to_patch_emb_first_frame(m, first_frame) ==
    <<first_frame[1], 1,
      first_frame[4] \div m.patch_size[1],
      first_frame[5] \div m.patch_size[2],
      m.dim>>

\* Rearrange('b c (t pt) (h p1) (w p2) -> b t h w (c pt p1 p2)'), LayerNorm,
\* Linear(c*pt*p1*p2, dim), LayerNorm
to_patch_emb(m, rest_frames) ==
    <<rest_frames[1],
      rest_frames[3] \div m.temporal_patch_size,
      rest_frames[4] \div m.patch_size[1],
      rest_frames[5] \div m.patch_size[2],
      m.dim>>

\* Linear(dim, c*p1*p2), Rearrange('b 1 h w (c p1 p2) -> b c 1 (h p1) (w p2)')
to_pixels_first_frame(m, tok) ==
    <<tok[1], m.channels, 1, tok[3] * m.patch_size[1], tok[4] * m.patch_size[2]>>

\* variant: the temporal patch size left out of the output pattern
to_pixels_no_pt(m, tok) ==
    <<tok[1], m.channels, tok[2], tok[3] * m.patch_size[1], tok[4] * m.patch_size[2]>>

\* Linear(dim, c*pt*p1*p2),
\* Rearrange('b t h w (c pt p1 p2) -> b c (t pt) (h p1) (w p2)')
to_pixels(m, tok) ==
    <<tok[1], m.channels, tok[2] * m.temporal_patch_size,
      tok[3] * m.patch_size[1], tok[4] * m.patch_size[2]>>

\* the spatial pass shared by encode and decode:
\* 'b t h w d -> (b t) (h w) d', spatial transformer,
\* '(b t) (h w) d -> b t h w d' with b, h, w given
spatial_pass(m, b, tokens) ==
    LET s == Transformer(<<tokens[1] * tokens[2], tokens[3] * tokens[4], tokens[5]>>)
    IN  <<b, s[1] \div b, patch_height_width(m)[1], patch_height_width(m)[2], s[3]>>

\* the temporal pass shared by encode and decode:
\* 'b t h w d -> (b h w) t d', temporal transformer,
\* '(b h w) t d -> b t h w d' with b, h, w given
temporal_pass(m, b, tokens) ==
    LET s == Transformer(<<tokens[1] * tokens[3] * tokens[4], tokens[2], tokens[5]>>)
    IN  <<b, s[2], patch_height_width(m)[1], patch_height_width(m)[2], s[3]>>

\* CViViT.encode: spatial transformer per frame, then temporal transformer
\* per spatial position
encode(m, tokens) == temporal_pass(m, tokens[1], spatial_pass(m, tokens[1], tokens))

\* the end of decode: pixel projection of the first token frame and of the
\* rest, concatenated over time
decode_to_pixels(m, tokens) ==
    cat(to_pixels_first_frame(m, [tokens EXCEPT ![2] = 1]),
        to_pixels(m, [tokens EXCEPT ![2] = tokens[2] - 1]), 3)

\* tokens.ndim == 3: 'b (t h w) d -> b t h w d', h=h, w=w
decode_grid(m, tokens) ==
    IF Len(tokens) = 3
    THEN <<tokens[1],
           tokens[2] \div (patch_height_width(m)[1] * patch_height_width(m)[2]),
           patch_height_width(m)[1], patch_height_width(m)[2], tokens[3]>>
    ELSE tokens

\* CViViT.decode: temporal then spatial transformer, then pixel projection
decode(m, tokens) ==
    decode_to_pixels(m,
        spatial_pass(m, tokens[1], temporal_pass(m, tokens[1], decode_grid(m, tokens))))

(***************************************************************************)
(* Frame mask -> token mask.                                               *)
(***************************************************************************)
\* row.sum(): the number of true entries
SumBool(row) == Cardinality({i \in 1..Len(row) : row[i]})

\* the assertion of calculate_video_token_mask: torch.all over the batch rows
video_token_mask_ok(m, video_frame_mask) ==
    \A r \in 1..Len(video_frame_mask) :
        ((SumBool(video_frame_mask[r]) - 1) % m.temporal_patch_size) = 0

\* variant: the first frame's mask left out, as in
\* calculate_video_token_mask_firstframe
calculate_video_token_mask_rest_only(m, video, video_frame_mask) ==
    LET hw == (video[4] \div m.patch_size[1]) * (video[5] \div m.patch_size[2])
        p == m.temporal_patch_size
        video_mask(row) ==
            [g \in 1..((Len(row) - 1) \div p) |->
                \E k \in 1..p : row[1 + (g - 1) * p + k]]
        rep(vm) == [i \in 1..(Len(vm) * hw) |-> vm[((i - 1) \div hw) + 1]]
    IN  [r \in 1..Len(video_frame_mask) |-> rep(video_mask(video_frame_mask[r]))]

\* the body of calculate_video_token_mask after its assertion
calculate_video_token_mask(m, video, video_frame_mask) ==
    LET h == video[4]
        w == video[5]
        hw == (h \div m.patch_size[1]) * (w \div m.patch_size[2])
        p == m.temporal_patch_size
        nrest(row) == (Len(row) - 1) \div p
        \* first_frame_mask ++ rest_vq_mask.any(dim=-1)
        video_mask(row) ==
            [g \in 1..(1 + nrest(row)) |->
                IF g = 1 THEN row[1]
                ELSE \E k \in 1..p : row[1 + (g - 2) * p + k]]
        \* repeat 'b f -> b (f hw)'
        rep(vm) == [i \in 1..(Len(vm) * hw) |-> vm[((i - 1) \div hw) + 1]]
    IN  [r \in 1..Len(video_frame_mask) |-> rep(video_mask(video_frame_mask[r]))]

\* a call of calculate_video_token_mask: its assertion, the rearrange
\* 'b (f p) -> b f p' (which needs f - 1 divisible by p), and its result
call_calculate_video_token_mask(m, video, video_frame_mask) ==
    IF ~video_token_mask_ok(m, video_frame_mask)
    THEN [raised |-> TRUE, exc |-> "AssertionError", val |-> None]
    ELSE IF ((Len(video_frame_mask[1]) - 1) % m.temporal_patch_size) # 0
    THEN [raised |-> TRUE, exc |-> "EinopsError", val |-> None]
    ELSE [raised |-> FALSE, exc |-> "",
          val |-> calculate_video_token_mask(m, video, video_frame_mask)]

(***************************************************************************)
(* Reconstruction loss.  err[b][t] is the squared error of frame t of      *)
(* batch row b summed over its c*h*w elements; a mean is kept as the pair  *)
(* <<sum, number of elements>> (0 elements: the mean of an empty tensor).  *)
(***************************************************************************)
RECURSIVE SumSelFrom(_, _, _, _)
SumSelFrom(err, sel, b, t) ==
    IF b > Len(err) THEN 0
    ELSE IF t > Len(err[b]) THEN SumSelFrom(err, sel, b + 1, 1)
    ELSE (IF sel[b][t] THEN err[b][t] ELSE 0) + SumSelFrom(err, sel, b, t + 1)

\* the sum of the selected entries of err
SumSel(err, sel) == SumSelFrom(err, sel, 1, 1)

\* the number of selected (b, t) positions
CountSel(sel) ==
    Cardinality({bt \in (1..Len(sel)) \X (1..Len(sel[1])) : sel[bt[1]][bt[2]]})

AllTrue(b, f) == [i \in 1..b |-> [t \in 1..f |-> TRUE]]

\* variant: the mask applied to the frames after the first only
masked_recon_loss_rest_frames(video, err, mask) ==
    LET sel == [b \in 1..Len(mask) |->
                   [t \in 1..Len(mask[b]) |-> t > 1 /\ mask[b][t]]]
    IN  <<SumSel(err, sel), CountSel(sel) * video[2] * video[4] * video[5]>>

\* F.mse_loss(video, recon_video, reduction='none')
\*   [repeat(mask, 'b t -> b c t', c=c)].mean()
masked_recon_loss(video, err, mask) ==
    <<SumSel(err, mask), CountSel(mask) * video[2] * video[4] * video[5]>>

\* F.mse_loss(video, recon_video)
plain_recon_loss(video, err) ==
    <<SumSel(err, AllTrue(video[1], video[3])), Prod(video)>>

\* equality of two means
SameMean(x, y) ==
    IF x[2] = 0 \/ y[2] = 0 THEN x[2] = y[2] ELSE x[1] * y[2] = y[1] * x[2]

(***************************************************************************)
(* CViViT.forward.  The record returned tells what one call did: the       *)
(* stages it ran, in order, the shapes of its intermediate tensors, and    *)
(* how it ended (an exception raised, or a value returned).                *)
(***************************************************************************)
NoRes ==
    [ stages     |-> <<>>,     \* submodules / stages invoked, in order
      raised     |-> FALSE,    \* the call ended in an exception
      exc        |-> "",       \* ... of this type
      ret        |-> "",       \* kind of the value returned
      val        |-> 0,        \* an integer result
      shape      |-> <<>>,     \* shape of the tensor returned
      grid       |-> <<>>,     \* patch token grid
      regrid     |-> <<>>,     \* grid rebuilt from the quantized sequence
      recon      |-> <<>>,     \* recon_video
      vq_mask    |-> None,
      recon_loss |-> <<>>,
      err        |-> <<>>,
      terms      |-> {},       \* the terms summed into the returned loss
      obj        |-> None ]    \* a model object returned

\* variant: the frame count tested without taking off the first frame
forward_precondition_whole_f(m, video_in, mask) ==
    /\ Len(video_in) \in {4, 5}
    /\ LET is_image == Len(video_in) = 4
           f == IF is_image THEN 1 ELSE video_in[3]
           image_dims == IF is_image THEN <<video_in[3], video_in[4]>>
                         ELSE <<video_in[4], video_in[5]>>
       IN  /\ ~(is_image /\ exists(mask))
           /\ image_dims = m.image_size
           /\ (~exists(mask) \/ Len(mask[1]) = f)
           /\ (f = 1 \/ divisible_by(f, m.temporal_patch_size))

\* the precondition checks that open forward (is_image -> mask is None,
\* image size, mask length, frame divisibility)
forward_precondition(m, video_in, mask) ==
    /\ Len(video_in) \in {4, 5}
    /\ LET is_image == Len(video_in) = 4
           f == IF is_image THEN 1 ELSE video_in[3]
           image_dims == IF is_image THEN <<video_in[3], video_in[4]>>
                         ELSE <<video_in[4], video_in[5]>>
       IN  /\ ~(is_image /\ exists(mask))
           /\ image_dims = m.image_size
           /\ (~exists(mask) \/ Len(mask[1]) = f)
           /\ divisible_by(f - 1, m.temporal_patch_size)

\* variant: the "discriminator must exist" assertion left out
discr_branch_unchecked(m, fl, r, returned_recon) ==
    IF fl.apply_grad_penalty
    THEN [r EXCEPT !.stages = r.stages \o <<"discr", "discr_loss", "gradient_penalty">>,
                   !.terms = {"discr_loss", "gp"},
                   !.ret = IF fl.return_recons THEN "loss_recons" ELSE "loss",
                   !.shape = IF fl.return_recons THEN returned_recon ELSE <<>>]
    ELSE [r EXCEPT !.stages = r.stages \o <<"discr", "discr_loss">>,
                   !.raised = TRUE, !.exc = "UnboundLocalError"]

\* the discriminator-training branch
discr_branch(m, fl, r, returned_recon) ==
    IF ~exists(m.discr)
    THEN [r EXCEPT !.raised = TRUE, !.exc = "AssertionError"]
    ELSE IF fl.apply_grad_penalty
    THEN [r EXCEPT !.stages = r.stages \o <<"discr", "discr_loss", "gradient_penalty">>,
                   !.terms = {"discr_loss", "gp"},
                   !.ret = IF fl.return_recons THEN "loss_recons" ELSE "loss",
                   !.shape = IF fl.return_recons THEN returned_recon ELSE <<>>]
    \* loss is bound only under apply_grad_penalty
    ELSE [r EXCEPT !.stages = r.stages \o <<"discr", "discr_loss">>,
                   !.raised = TRUE, !.exc = "UnboundLocalError"]

\* variant: the commitment loss added to the grayscale return
grayscale_return_with_commit(fl, r, returned_recon) ==
    [r EXCEPT !.terms = {"recon_loss", "commit_loss"},
              !.ret = IF fl.return_recons THEN "loss_recons" ELSE "loss",
              !.shape = IF fl.return_recons THEN returned_recon ELSE <<>>]

\* "early return if training on grayscale"
grayscale_return(fl, r, returned_recon) ==
    [r EXCEPT !.terms = {"recon_loss"},
              !.ret = IF fl.return_recons THEN "loss_recons" ELSE "loss",
              !.shape = IF fl.return_recons THEN returned_recon ELSE <<>>]

\* perceptual, video-perceptual and generator losses and their weighted sum
generator_branch(m, fl, r, video, returned_recon) ==
    [r EXCEPT !.stages = r.stages \o <<"loss_fn_lpips">>
                  \o (IF video[3] > 1 THEN <<"i3d">> ELSE <<>>)
                  \o (IF m.use_discr THEN <<"discr", "gen_loss">> ELSE <<>>),
              !.terms = {"commit_loss", "gen_loss", "perceptual_loss",
                         "i3d_video_perceptual_loss", "recon_loss"},
              !.ret = IF fl.return_recons THEN "loss_recons" ELSE "loss",
              !.shape = IF fl.return_recons THEN returned_recon ELSE <<>>]

\* after the reconstruction loss: the masked stub, then the three branches
loss_branches(m, video, mask, fl, r, returned_recon) ==
    IF exists(mask)
    \* print('Not implemented!'); return NotImplementedError
    THEN [r EXCEPT !.ret = "NotImplementedError"]
    ELSE IF fl.return_discr_loss THEN discr_branch(m, fl, r, returned_recon)
    ELSE IF ~m.use_vgg_and_gan THEN grayscale_return(fl, r, returned_recon)
    ELSE generator_branch(m, fl, r, video, returned_recon)

\* "LOSS COMPUTATION" onwards
loss_computation(m, video, mask, fl, err, r, returned_recon) ==
    loss_branches(m, video, mask, fl,
        [r EXCEPT !.stages = r.stages \o <<"recon_loss">>,
                  !.err = err,
                  !.recon_loss = IF exists(mask)
                                 THEN masked_recon_loss(video, err, mask)
                                 ELSE plain_recon_loss(video, err)],
        returned_recon)

\* which of the exits after quantization / after decode the flags select;
\* return_only_codebook_ids is tested first
exit_mode_recons_first(fl) ==
    IF fl.return_recons_only THEN "recons"
    ELSE IF fl.return_only_codebook_ids THEN "codes"
    ELSE "loss"

exit_mode(fl) ==
    IF fl.return_only_codebook_ids THEN "codes"
    ELSE IF fl.return_recons_only THEN "recons"
    ELSE "loss"

\* after decode: the image squeeze, the recon-only exit, the losses
forward_after_decode(m, video, is_image, mask, fl, err, r, recon_video) ==
    IF is_image /\ recon_video[3] # 1
    THEN [r EXCEPT !.recon = recon_video, !.raised = TRUE, !.exc = "EinopsError"]
    ELSE IF exit_mode(fl) = "recons"
    \* 'b c 1 h w -> b c h w' when is_image, else recon_video.clone()
    THEN [r EXCEPT !.recon = recon_video, !.ret = "recons",
                   !.shape = IF is_image THEN <<recon_video[1], recon_video[2],
                                                recon_video[4], recon_video[5]>>
                             ELSE recon_video]
    ELSE loss_computation(m, video, mask, fl, err, [r EXCEPT !.recon = recon_video],
                          IF is_image THEN <<recon_video[1], recon_video[2],
                                             recon_video[4], recon_video[5]>>
                          ELSE recon_video)

\* 'b (t h w) d -> b t h w d' with the h, w saved from the patch grid, decode
forward_decode(m, video, is_image, mask, fl, err, r, tokens) ==
    forward_after_decode(m, video, is_image, mask, fl, err,
        [r EXCEPT !.stages = r.stages \o <<"decode">>, !.regrid = tokens],
        decode(m, tokens))

\* pack, token mask, self.vq, the codes-only exit.  self.vq returns the
\* quantized sequence (the shape of its input) and the indices [b, n]
forward_quantize(m, video, is_image, mask, fl, err, r, packed) ==
    IF exists(mask) /\ ~video_token_mask_ok(m, mask)
    THEN [r EXCEPT !.stages = r.stages \o <<"calculate_video_token_mask">>,
                   !.raised = TRUE, !.exc = "AssertionError"]
    ELSE IF exit_mode(fl) = "codes"
    \* unpack(indices, packed_fhw_shape, 'b *')
    THEN [r EXCEPT !.stages = r.stages
                       \o (IF exists(mask) THEN <<"calculate_video_token_mask">>
                           ELSE <<>>) \o <<"vq">>,
                   !.vq_mask = IF exists(mask)
                               THEN calculate_video_token_mask(m, video, mask)
                               ELSE None,
                   !.ret = "indices",
                   !.shape = <<packed[1], r.grid[2], r.grid[3], r.grid[4]>>]
    ELSE forward_decode(m, video, is_image, mask, fl, err,
            [r EXCEPT !.stages = r.stages
                          \o (IF exists(mask) THEN <<"calculate_video_token_mask">>
                              ELSE <<>>) \o <<"vq">>,
                      !.vq_mask = IF exists(mask)
                                  THEN calculate_video_token_mask(m, video, mask)
                                  ELSE None],
            <<packed[1], packed[2] \div (r.grid[3] * r.grid[4]),
              r.grid[3], r.grid[4], packed[3]>>)

\* encode and pack([tokens], 'b * d'); the grid shape is kept in r.grid
forward_encode(m, video, is_image, mask, fl, err, tokens) ==
    forward_quantize(m, video, is_image, mask, fl, err,
        [NoRes EXCEPT !.stages = <<"to_patch_emb", "encode">>, !.grid = tokens],
        LET enc == encode(m, tokens)
        IN  <<enc[1], enc[2] * enc[3] * enc[4], enc[5]>>)

\* first frame / rest split, patch embedding, cat over time
forward_embed(m, video, is_image, mask, fl, err) ==
    forward_encode(m, video, is_image, mask, fl, err,
        cat(to_patch_emb_first_frame(m, [video EXCEPT ![3] = 1]),
            to_patch_emb(m, [video EXCEPT ![3] = video[3] - 1]), 2))

forward(m, video_in, mask, fl, err) ==
    IF ~forward_precondition(m, video_in, mask)
    THEN [NoRes EXCEPT !.raised = TRUE, !.exc = "AssertionError"]
    \* 'b c h w -> b c 1 h w' when is_image
    ELSE forward_embed(m,
            IF Len(video_in) = 4
            THEN <<video_in[1], video_in[2], 1, video_in[3], video_in[4]>>
            ELSE video_in,
            Len(video_in) = 4, mask, fl, err)

(***************************************************************************)
(* Checkpoints and the evaluation copy.  A checkpoint file is its suffix,  *)
(* whether it exists, and the keys of the tensor mapping it holds.         *)
(***************************************************************************)
missing_keys(m, pt) == (DOMAIN m.weights) \ pt
unexpected_keys(m, pt) == pt \ (DOMAIN m.weights)

\* what nn.Module.load_state_dict reports as an error under strict
load_state_dict_fails(m, pt, strict) ==
    strict /\ (missing_keys(m, pt) \cup unexpected_keys(m, pt)) # {}

\* the remove_vgg decorator: the vgg attribute is taken off for the call and
\* put back after it, so it stays off when the wrapped call raises
remove_vgg(m, raised) ==
    [m EXCEPT !.has_vgg_attr = m.has_vgg_attr /\ ~raised]

\* nn.Module.load_state_dict behind the remove_vgg wrapper: the tensors of
\* the matching keys are copied in; under strict a missing or unexpected key
\* then raises RuntimeError.  Gives the outcome and the object afterwards.
load_state_dict(m, pt, strict) ==
    [ raised |-> load_state_dict_fails(m, pt, strict),
      exc    |-> IF load_state_dict_fails(m, pt, strict)
                 THEN "RuntimeError" ELSE "",
      self   |-> [remove_vgg(m, load_state_dict_fails(m, pt, strict))
                    EXCEPT !.weights =
                        [k \in DOMAIN m.weights |->
                            IF k \in pt THEN "ckpt" ELSE m.weights[k]]] ]

\* CViViT.load: torch.load reads a pickled '.bin' / '.pt' file only
load(m, path) ==
    IF ~path.exists THEN [raised |-> TRUE, exc |-> "AssertionError", self |-> m]
    ELSE IF path.suffix = ".safetensors"
    THEN [raised |-> TRUE, exc |-> "UnpicklingError", self |-> m]
    ELSE load_state_dict(m, path.keys, TRUE)

\* the two load_state_dict calls that end load_safetensors: strict=False,
\* then the default strict=True on the object the first one left
load_safetensors_apply(m, pt) ==
    load_state_dict(load_state_dict(m, pt, FALSE).self, pt, TRUE)

\* CViViT.load_safetensors
load_safetensors(m, path) ==
    IF ~path.exists THEN [raised |-> TRUE, exc |-> "AssertionError", self |-> m]
    ELSE IF path.suffix \notin {".bin", ".safetensors"}
    THEN [raised |-> TRUE, exc |-> "ValueError", self |-> m]
    ELSE load_safetensors_apply(m, path.keys)

\* CViViT.copy_for_eval: self.cpu() moves the object itself; the deep copy
\* loses discr and vgg (del raises on an attribute that is not there), is put
\* in eval mode and moved to the device read first
copy_for_eval(m) ==
    IF m.use_vgg_and_gan /\ ~m.has_vgg_attr
    THEN [ raised |-> TRUE, exc |-> "AttributeError",
           self |-> [m EXCEPT !.device = "cpu"], copy |-> None ]
    ELSE [ raised |-> FALSE, exc |-> "",
           self |-> [m EXCEPT !.device = "cpu"],
           copy |-> IF m.use_vgg_and_gan
                    THEN [m EXCEPT !.discr = None, !.has_discr_attr = FALSE,
                                   !.has_vgg_attr = FALSE,
                                   !.training = FALSE]
                    ELSE [m EXCEPT !.training = FALSE] ]

(***************************************************************************)
(* The inputs the calls are tried on.                                      *)
(***************************************************************************)
Batches == {1, 2}

Flags ==
    [ return_recons : BOOLEAN, return_recons_only : BOOLEAN,
      return_discr_loss : BOOLEAN, apply_grad_penalty : BOOLEAN,
      return_only_codebook_ids : BOOLEAN ]

NoFlags ==
    [ return_recons |-> FALSE, return_recons_only |-> FALSE,
      return_discr_loss |-> FALSE, apply_grad_penalty |-> TRUE,
      return_only_codebook_ids |-> FALSE ]

\* an image size other than the configured one (still divisible into patches)
OtherSize(m) == <<m.image_size[1], m.image_size[2] + m.patch_size[2]>>

Videos(m) ==
    LET H == m.image_size[1]
        W == m.image_size[2]
        c == m.channels
        o == OtherSize(m)
    IN  { <<b, c, f, H, W>> : b \in Batches, f \in 1..MaxFrames }
        \cup { <<b, c, H, W>> : b \in Batches }
        \cup { <<1, c, f, o[1], o[2]>> : f \in 1..MaxFrames }
        \cup { <<1, c, o[1], o[2]>>, <<1, H, W>>, <<1, c, 1, 1, H, W>> }

\* frame masks: every boolean [b, f] mask for the video, and all-true masks
\* of the other lengths
Masks(video) ==
    LET b == video[1]
        f == IF Len(video) = 5 THEN video[3] ELSE 1
    IN  {None}
        \cup [1..b -> [1..f -> BOOLEAN]]
        \cup { AllTrue(b, n) : n \in 1..MaxFrames }

\* the squared error tensor: zero, or one in a single position (the losses are
\* linear in it, so these span every error tensor)
ErrTensors(video) ==
    IF Len(video) \notin {4, 5} THEN {<<>>}
    ELSE LET b == video[1]
             f == IF Len(video) = 5 THEN video[3] ELSE 1
         IN  { [i \in 1..b |-> [t \in 1..f |-> 0]] }
             \cup { [i \in 1..b |-> [t \in 1..f |->
                        IF i = bi /\ t = ti THEN 1 ELSE 0]] :
                    bi \in 1..b, ti \in 1..f }

\* checkpoint files: '.pt' stands for every other suffix; "extra" is a key
\* no model has
Paths ==
    [ suffix : {".bin", ".safetensors", ".pt"}, exists : {TRUE},
      keys : SUBSET {"vq", "to_pixels", "discr", "extra"} ]
    \cup [ suffix : {".bin", ".safetensors", ".pt"}, exists : {FALSE},
           keys : {{}} ]

Devices == {"cpu", "cuda"}

(***************************************************************************)
(* The state machine: one object, one call at a time.                      *)
(***************************************************************************)
Idle ==
    [ op |-> "idle", video |-> <<>>, mask |-> None, flags |-> NoFlags,
      num |-> 0, include_first_frame |-> TRUE,
      path |-> None,      \* the checkpoint file handed to load / load_safetensors
      before |-> None ]   \* the object as it was when the call was made

Init ==
    /\ \E geom \in Geometries, pt \in 1..MaxPt,
          use_vgg_and_gan \in BOOLEAN, use_discr \in BOOLEAN :
          self = CViViT_init(geom, pt, use_vgg_and_gan, use_discr)
    /\ call = Idle
    /\ res = NoRes

Forward ==
    /\ call.op = "idle"
    /\ \E video \in Videos(self) :
       \E mask \in Masks(video), fl \in Flags, err \in ErrTensors(video) :
          /\ call' = [Idle EXCEPT !.op = "forward", !.video = video,
                                  !.mask = mask, !.flags = fl]
          /\ res' = forward(self, video, mask, fl, err)
    /\ UNCHANGED self

FramesPerNumTokens ==
    /\ call.op = "idle"
    /\ \E n \in -1..MaxTokens :
          /\ call' = [Idle EXCEPT !.op = "frames_per_num_tokens", !.num = n]
          /\ LET o == frames_per_num_tokens(self, n)
             IN  res' = [NoRes EXCEPT !.raised = o.raised, !.exc = o.exc,
                                      !.val = o.val,
                                      !.ret = IF o.raised THEN "" ELSE "int"]
    /\ UNCHANGED self

NumTokensPerFrames ==
    /\ call.op = "idle"
    /\ \E n \in 1..(MaxFrames + 1), iff \in BOOLEAN :
          /\ call' = [Idle EXCEPT !.op = "num_tokens_per_frames", !.num = n,
                                  !.include_first_frame = iff]
          /\ LET o == num_tokens_per_frames(self, n, iff)
             IN  res' = [NoRes EXCEPT !.raised = o.raised, !.exc = o.exc,
                                      !.val = o.val,
                                      !.ret = IF o.raised THEN "" ELSE "int"]
    /\ UNCHANGED self

\* the call is over; the object is ready for the next one
Return ==
    /\ call.op # "idle"
    /\ call' = Idle
    /\ res' = NoRes
    /\ UNCHANGED self

\* calculate_video_token_mask called on a video of the configured size and a
\* boolean frame mask [b, f]
CalculateVideoTokenMask ==
    /\ call.op = "idle"
    /\ \E b \in Batches, f \in 1..MaxMaskFrames :
       \E mask \in [1..b -> [1..f -> BOOLEAN]] :
          LET video == <<b, self.channels, f, self.image_size[1], self.image_size[2]>>
              o == call_calculate_video_token_mask(self, video, mask)
          IN  /\ call' = [Idle EXCEPT !.op = "calculate_video_token_mask",
                                      !.video = video, !.mask = mask]
              /\ res' = [NoRes EXCEPT !.raised = o.raised, !.exc = o.exc,
                                      !.vq_mask = o.val,
                                      !.ret = IF o.raised THEN "" ELSE "mask"]
    /\ UNCHANGED self

Next == Forward \/ FramesPerNumTokens \/ NumTokensPerFrames \/ Return

Spec == Init /\ [][Next]_vars

\* nn.Module.to / .cuda() / .cpu() called on the object
To ==
    /\ call.op = "idle"
    /\ \E d \in Devices : self' = [self EXCEPT !.device = d]
    /\ UNCHANGED <<call, res>>

\* nn.Module.train() / .eval() called on the object
Train ==
    /\ call.op = "idle"
    /\ \E mode \in BOOLEAN : self' = [self EXCEPT !.training = mode]
    /\ UNCHANGED <<call, res>>

Load ==
    /\ call.op = "idle"
    /\ \E path \in Paths :
          LET o == load(self, path)
          IN  /\ call' = [Idle EXCEPT !.op = "load", !.path = path, !.before = self]
              /\ self' = o.self
              /\ res' = [NoRes EXCEPT !.raised = o.raised, !.exc = o.exc]

LoadSafetensors ==
    /\ call.op = "idle"
    /\ \E path \in Paths :
          LET o == load_safetensors(self, path)
          IN  /\ call' = [Idle EXCEPT !.op = "load_safetensors", !.path = path,
                                      !.before = self]
              /\ self' = o.self
              /\ res' = [NoRes EXCEPT !.raised = o.raised, !.exc = o.exc]

CopyForEval ==
    /\ call.op = "idle"
    /\ LET o == copy_for_eval(self)
       IN  /\ call' = [Idle EXCEPT !.op = "copy_for_eval", !.before = self]
           /\ self' = o.self
           /\ res' = [NoRes EXCEPT !.raised = o.raised, !.exc = o.exc,
                                   !.ret = IF o.raised THEN "" ELSE "model",
                                   !.obj = o.copy]

\* the object's life outside forward: moved between devices, switched
\* between training and eval mode, loaded from checkpoints, copied for eval
NextObj == To \/ Train \/ Load \/ LoadSafetensors \/ CopyForEval \/ Return

SpecObj == Init /\ [][NextObj]_vars

\* the frame-mask expansion on its own, on longer masks
NextMask == CalculateVideoTokenMask \/ Return

SpecMask == Init /\ [][NextMask]_vars

(***************************************************************************)
(* Properties.  They read the call in progress and its outcome.            *)
(***************************************************************************)
IsForward == call.op = "forward"
Rank == Len(call.video)
HasMask == call.mask # None
\* frame count and image dimensions of the video handed to forward
InF == IF Rank = 4 THEN 1 ELSE call.video[3]
InDims == IF Rank = 4 THEN <<call.video[3], call.video[4]>>
          ELSE <<call.video[4], call.video[5]>>
Pt == self.temporal_patch_size
Has(stage) == \E i \in 1..Len(res.stages) : res.stages[i] = stage
LastStage == IF res.stages = <<>> THEN "" ELSE res.stages[Len(res.stages)]
LossStages ==
    {"recon_loss", "discr", "discr_loss", "gradient_penalty", "loss_fn_lpips",
     "i3d", "gen_loss"}
NoLossStage == \A i \in 1..Len(res.stages) : res.stages[i] \notin LossStages

\* the video and mask satisfy the shape contract of forward
ValidVideo ==
    /\ Rank \in {4, 5}
    /\ InDims = self.image_size
    /\ (InF - 1) % Pt = 0
ValidMask ==
    HasMask =>
        /\ Rank = 5
        /\ Len(call.mask[1]) = InF
        /\ \A r \in 1..Len(call.mask) : (SumBool(call.mask[r]) - 1) % Pt = 0
ValidInput == ValidVideo /\ ValidMask

\* C1: on a valid input, return_only_codebook_ids makes forward return the
\* index tensor right after quantization (no decode, no loss stage), and
\* return_recons_only without it makes forward return the reconstruction right
\* after decode (no loss stage); neither exit returns a loss.
C1_EarlyExits ==
    (IsForward /\ ValidInput) =>
        /\ call.flags.return_only_codebook_ids =>
              /\ ~res.raised /\ res.ret = "indices"
              /\ LastStage = "vq" /\ ~Has("decode") /\ NoLossStage
              /\ res.terms = {} /\ res.recon_loss = <<>>
        /\ (call.flags.return_recons_only /\ ~call.flags.return_only_codebook_ids) =>
              /\ ~res.raised /\ res.ret = "recons"
              /\ LastStage = "decode" /\ NoLossStage
              /\ res.terms = {} /\ res.recon_loss = <<>>

C1_Witness ==
    /\ IsForward /\ ValidInput /\ HasMask
    /\ call.flags.return_only_codebook_ids /\ call.flags.return_recons_only
    /\ call.flags.return_discr_loss
    /\ res.ret = "indices" /\ LastStage = "vq"

\* C2: for a frame count f >= 1 with (f - 1) % pt = 0,
\* frames_per_num_tokens(num_tokens_per_frames(f)) = f; for a token count
\* n > 0 that is a multiple of the tokens per frame,
\* num_tokens_per_frames(frames_per_num_tokens(n)) = n.
C2_RoundTrip ==
    /\ (/\ call.op = "num_tokens_per_frames" /\ call.include_first_frame
        /\ call.num >= 1 /\ (call.num - 1) % Pt = 0)
       => /\ ~res.raised
          /\ frames_per_num_tokens(self, res.val) = Returned(call.num)
    /\ (/\ call.op = "frames_per_num_tokens"
        /\ call.num > 0 /\ call.num % image_num_tokens(self) = 0)
       => /\ ~res.raised
          /\ num_tokens_per_frames(self, res.val, TRUE) = Returned(call.num)

C2_Witness ==
    /\ call.op = "num_tokens_per_frames" /\ call.include_first_frame
    /\ Pt > 1 /\ call.num = 1 + Pt /\ image_num_tokens(self) > 1
    /\ ~res.raised /\ res.val = 2 * image_num_tokens(self)

\* C3 as stated: num_tokens_per_frames raises for every frame count f with
\* (f - 1) % pt # 0, and frames_per_num_tokens raises for every token count
\* that is not a positive multiple of the tokens per frame.
C3_Original ==
    /\ (call.op = "num_tokens_per_frames" /\ (call.num - 1) % Pt # 0)
       => res.raised /\ res.ret = ""
    /\ (/\ call.op = "frames_per_num_tokens"
        /\ ~(call.num > 0 /\ call.num % image_num_tokens(self) = 0))
       => res.raised /\ res.ret = ""

\* C3 amended: num_tokens_per_frames raises for every frame count f with
\* (f - 1) % pt # 0 when include_first_frame is true (the default) and for
\* every f with f % pt # 0 when it is false; frames_per_num_tokens raises for
\* every token count that is not a positive multiple of the tokens per frame.
C3_Amended ==
    /\ (/\ call.op = "num_tokens_per_frames"
        /\ (IF call.include_first_frame THEN call.num - 1 ELSE call.num) % Pt # 0)
       => res.raised /\ res.ret = ""
    /\ (/\ call.op = "frames_per_num_tokens"
        /\ ~(call.num > 0 /\ call.num % image_num_tokens(self) = 0))
       => res.raised /\ res.ret = ""

C3_Witness ==
    /\ call.op = "num_tokens_per_frames" /\ call.include_first_frame
    /\ Pt > 1 /\ call.num = Pt
    /\ res.raised /\ res.exc = "AssertionError"

\* C4: whatever the flags, forward raises before patch embedding (no stage
\* runs, nothing is returned) when the rank is not 4 or 5, the height/width
\* differ from image_size, a mask comes with a rank-4 image, the mask's last
\* dimension differs from f, or f - 1 is not divisible by temporal_patch_size.
C4_BadInput ==
    \/ Rank \notin {4, 5}
    \/ /\ Rank \in {4, 5}
       /\ \/ InDims # self.image_size
          \/ Rank = 4 /\ HasMask
          \/ HasMask /\ Len(call.mask[1]) # InF
          \/ (InF - 1) % Pt # 0

C4_FailFast ==
    (IsForward /\ C4_BadInput) =>
        /\ res.raised /\ res.ret = "" /\ res.shape = <<>>
        /\ res.stages = <<>> /\ res.grid = <<>>

C4_Witness ==
    /\ IsForward /\ Rank = 5 /\ InDims = self.image_size /\ ~HasMask
    /\ (InF - 1) % Pt # 0
    /\ call.flags.return_only_codebook_ids
    /\ res.raised /\ res.stages = <<>>

\* C5 as stated: every forward call on a valid video with
\* return_discr_loss=True on a model without a discriminator raises, for every
\* setting of the other flags and of the mask.
C5_Original ==
    (/\ IsForward /\ ValidVideo /\ call.flags.return_discr_loss
     /\ ~exists(self.discr))
    => res.raised /\ res.ret = ""

\* C5 amended: on a model without a discriminator, a forward call on a valid
\* video with return_discr_loss=True and neither return_only_codebook_ids nor
\* return_recons_only set never invokes a discriminator and returns no loss,
\* reconstruction or indices; with no mask it raises the "discriminator must
\* exist" assertion right after the reconstruction loss.
C5_Amended ==
    (/\ IsForward /\ ValidVideo /\ call.flags.return_discr_loss
     /\ ~exists(self.discr)
     /\ ~call.flags.return_only_codebook_ids /\ ~call.flags.return_recons_only)
    => /\ ~Has("discr") /\ res.terms = {}
       /\ res.ret \notin {"loss", "loss_recons", "recons", "indices"}
       /\ ~HasMask => /\ res.raised /\ res.exc = "AssertionError"
                      /\ LastStage = "recon_loss"

C5_Witness ==
    /\ IsForward /\ ValidVideo /\ ~HasMask /\ call.flags.return_discr_loss
    /\ self.use_vgg_and_gan /\ ~self.use_discr
    /\ ~call.flags.return_only_codebook_ids /\ ~call.flags.return_recons_only
    /\ res.raised /\ LastStage = "recon_loss"

\* C6: a forward call given a frame mask that reaches loss computation
\* (neither return_only_codebook_ids nor return_recons_only set) raises and
\* does not return normally with any value.
C6_MaskedLossRaises ==
    (/\ IsForward /\ HasMask /\ Has("recon_loss")
     /\ ~call.flags.return_only_codebook_ids /\ ~call.flags.return_recons_only)
    => res.raised /\ res.ret = ""

\* C7: with use_vgg_and_gan=False the model has no discriminator, LPIPS or I3D
\* submodule, and a full-training forward call (no mask, no recon-only,
\* codes-only or discriminator flag) returns exactly the reconstruction loss
\* (with the reconstruction under return_recons), invoking no discriminator or
\* perceptual extractor.
C7_GrayscaleLoss ==
    ~self.use_vgg_and_gan =>
        /\ ~exists(self.discr) /\ ~self.has_loss_fn_lpips /\ ~self.has_i3d
        /\ (/\ IsForward /\ ValidVideo /\ ~HasMask
            /\ ~call.flags.return_only_codebook_ids
            /\ ~call.flags.return_recons_only
            /\ ~call.flags.return_discr_loss)
           => /\ ~res.raised
              /\ res.terms = {"recon_loss"}
              /\ res.ret = IF call.flags.return_recons THEN "loss_recons" ELSE "loss"
              /\ LastStage = "recon_loss"
              /\ ~Has("discr") /\ ~Has("loss_fn_lpips") /\ ~Has("i3d")
              /\ ~Has("gen_loss")

C7_Witness ==
    /\ ~self.use_vgg_and_gan /\ self.use_discr
    /\ IsForward /\ ValidVideo /\ ~HasMask /\ InF > 1
    /\ call.flags = [NoFlags EXCEPT !.return_recons = TRUE]
    /\ res.ret = "loss_recons" /\ res.terms = {"recon_loss"}

\* the video as forward sees it after promoting an image to one frame
Video5 ==
    IF Rank = 4
    THEN <<call.video[1], call.video[2], 1, call.video[3], call.video[4]>>
    ELSE call.video

\* C8: the reconstruction loss forward computes under an all-true frame mask
\* equals the one it computes with no mask on the same video and
\* reconstruction.
C8_AllTrueMask ==
    (/\ IsForward /\ HasMask /\ Has("recon_loss")
     /\ call.mask = AllTrue(call.video[1], InF))
    => SameMean(res.recon_loss, plain_recon_loss(Video5, res.err))

C8_Witness ==
    /\ IsForward /\ HasMask /\ Has("recon_loss")
    /\ InF > 1 /\ call.video[1] > 1 /\ self.channels > 1
    /\ call.mask = AllTrue(call.video[1], InF)
    /\ res.recon_loss[1] > 0 /\ res.recon_loss[2] = Prod(call.video)

\* C9: for every temporal patch size and every flag setting, a forward call
\* given an all-false frame mask raises; it returns no value.
AllFalseMask ==
    /\ HasMask
    /\ \A r \in 1..Len(call.mask) : \A t \in 1..Len(call.mask[r]) : ~call.mask[r][t]

C9_AllFalseMaskRaises ==
    (IsForward /\ AllFalseMask) => res.raised /\ res.ret = ""

\* C10: for a valid video [b, c, f, H, W] the patch grid is
\* [b, 1 + (f-1)/pt, H/patch_height, W/patch_width, dim], the quantized
\* sequence is restored to that grid, and the reconstruction has the shape of
\* the input (rank 4 when the input was a rank-4 image).
C10_Grid ==
    <<call.video[1], 1 + (InF - 1) \div Pt,
      InDims[1] \div self.patch_size[1], InDims[2] \div self.patch_size[2],
      self.dim>>

C10_Shapes ==
    (IsForward /\ ValidInput) =>
        /\ res.grid = C10_Grid
        /\ Has("decode") =>
              /\ res.regrid = C10_Grid
              /\ res.recon = Video5
        /\ res.ret \in {"recons", "loss_recons"} => res.shape = call.video

C10_Witness ==
    /\ IsForward /\ ValidInput /\ Rank = 5 /\ InF = 1 + Pt /\ Pt > 1
    /\ call.video[1] > 1 /\ InDims[1] # InDims[2]
    /\ res.ret = "recons" /\ res.shape = call.video
    /\ res.regrid[2] = 2

\* C12: in the discriminator-training branch (return_discr_loss=True, a
\* discriminator configured, no mask) forward returns the discriminator loss
\* plus the gradient penalty when apply_grad_penalty is true and the
\* discriminator loss alone when it is false (with the reconstruction under
\* return_recons); it returns a defined value and never reaches the generator
\* branch.
C12_DiscrBranch ==
    (/\ IsForward /\ ValidVideo /\ ~HasMask
     /\ call.flags.return_discr_loss /\ exists(self.discr)
     /\ ~call.flags.return_only_codebook_ids /\ ~call.flags.return_recons_only)
    => /\ ~res.raised
       /\ res.ret = IF call.flags.return_recons THEN "loss_recons" ELSE "loss"
       /\ res.terms = IF call.flags.apply_grad_penalty
                      THEN {"discr_loss", "gp"} ELSE {"discr_loss"}
       /\ ~Has("gen_loss") /\ ~Has("loss_fn_lpips") /\ ~Has("i3d")

IsMaskCall == call.op = "calculate_video_token_mask"
\* a row of valid frames followed by invalid ones: a variable-length video
IsPrefix(row) == \A t \in 2..Len(row) : row[t] => row[t - 1]

\* C13 as stated: for every boolean frame mask [b, f] that passes the
\* assertion, the token mask has length (1 + (f-1)/pt) * tokens per frame and
\* each row marks num_tokens_per_frames(valid frames of the row) tokens valid.
C13_Original ==
    (IsMaskCall /\ ~res.raised) =>
        \A r \in 1..Len(call.mask) :
            /\ Len(res.vq_mask[r])
                 = (1 + (call.video[3] - 1) \div Pt) * image_num_tokens(self)
            /\ Returned(SumBool(res.vq_mask[r]))
                 = num_tokens_per_frames(self, SumBool(call.mask[r]), TRUE)

\* C13 amended: for every boolean frame mask [b, f] that passes the
\* assertion, the token mask has length (1 + (f-1)/pt) * tokens per frame,
\* and each row whose valid frames come first (none after an invalid one)
\* marks num_tokens_per_frames(valid frames of the row) tokens valid.
C13_Amended ==
    (IsMaskCall /\ ~res.raised) =>
        \A r \in 1..Len(call.mask) :
            /\ Len(res.vq_mask[r])
                 = (1 + (call.video[3] - 1) \div Pt) * image_num_tokens(self)
            /\ IsPrefix(call.mask[r]) =>
                  Returned(SumBool(res.vq_mask[r]))
                    = num_tokens_per_frames(self, SumBool(call.mask[r]), TRUE)

C13_Witness ==
    /\ IsMaskCall /\ ~res.raised /\ Pt > 1 /\ image_num_tokens(self) > 1
    /\ Len(call.mask) = 2 /\ call.video[3] = 1 + 2 * Pt
    /\ IsPrefix(call.mask[1]) /\ SumBool(call.mask[1]) = 1 + Pt
    /\ IsPrefix(call.mask[2]) /\ SumBool(call.mask[2]) = 1
    /\ SumBool(res.vq_mask[1]) = 2 * image_num_tokens(self)
    /\ SumBool(res.vq_mask[2]) = image_num_tokens(self)


(***************************************************************************)
(* Checkpoints and the evaluation copy, under SpecObj.                     *)
(***************************************************************************)
IsLoadSafetensors == call.op = "load_safetensors"
IsLoad == call.op = "load"
IsCopyForEval == call.op = "copy_for_eval"

\* the checkpoint's key set has missing or unexpected keys relative to the
\* model the call was made on
Mismatched ==
    (missing_keys(call.before, call.path.keys)
        \cup unexpected_keys(call.before, call.path.keys)) # {}

\* C11: load_safetensors on an existing '.bin' or '.safetensors' checkpoint
\* does not raise, missing or unexpected keys included; load raises on an
\* existing checkpoint with missing or unexpected keys; load_safetensors on
\* an existing file of any other suffix raises ValueError and leaves the
\* model's weights as they were.
C11_NonStrictLoad ==
    /\ (IsLoadSafetensors /\ call.path.exists
            /\ call.path.suffix \in {".bin", ".safetensors"})
          => ~res.raised
    /\ (IsLoad /\ call.path.exists /\ Mismatched) => res.raised
    /\ (IsLoadSafetensors /\ call.path.exists
            /\ call.path.suffix \notin {".bin", ".safetensors"})
          => /\ res.raised
             /\ res.exc = "ValueError"
             /\ self.weights = call.before.weights

\* C14: after copy_for_eval the original is as it was before the call (same
\* device, discr and vgg attributes, training/eval mode), and the returned
\* copy is in eval mode, on the device the original was on, without discr
\* and vgg when use_vgg_and_gan is true.
C14_CopyForEval ==
    IsCopyForEval =>
        /\ self = call.before
        /\ ~res.raised
        /\ ~res.obj.training
        /\ res.obj.device = call.before.device
        /\ call.before.use_vgg_and_gan
              => ~res.obj.has_discr_attr /\ ~res.obj.has_vgg_attr
=============================================================================
